---------------------------- MODULE Spec2Model ----------------------------
(***************************************************************************)
(* A model of suncasa/io/ndfits.py: the FITS header normalisation          *)
(* routines (headerfix, headerparse, headersqueeze), the compressed        *)
(* writer (write), the single-file reader (read) and the band wrapper      *)
(* (wrap).                                                                 *)
(*                                                                         *)
(* Representation.                                                         *)
(*  - A header keyword and a string value are sequences of one-character   *)
(*    strings, so that str.format, startswith, replace and split are       *)
(*    computed and not assumed.                                            *)
(*  - A header is a function from keywords to values.  The card order of   *)
(*    an astropy Header is not kept: no routine modelled here reads it.    *)
(*  - An array is its numpy shape (array axis 0 first, so header axis i    *)
(*    is array axis ndim-i) together with what the routines can observe    *)
(*    of its content.  Every axis has length >= 1: a FITS HDU that has     *)
(*    a data array has no NAXISn = 0.                                      *)
(*  - Floating point values are exact rationals <<num, den>>; <<0, 0>>     *)
(*    is NaN.                                                              *)
(***************************************************************************)
EXTENDS Integers, Sequences, FiniteSets, TLC

VARIABLES
    pc,        \* control point of the call that is running
    args,      \* the arguments of the call
    header,    \* the header the call works on
    data,      \* the array the call works on
    ret,       \* the call's return value
    fs,        \* the file system: path -> what the file holds
    out,       \* what the call printed
    handles,   \* container handles opened and not closed
    loc        \* the call's local variables

vars == <<pc, args, header, data, ret, fs, out, handles, loc>>

\* Largest number of array axes drawn for headersqueeze and write.
MaxNdim == 4
\* Largest axis length drawn.
MaxDim == 2

None == "None"

---------------------------------------------------------------------------
(* Strings *)

DigitChars == <<"0", "1", "2", "3", "4", "5", "6", "7", "8", "9">>

RECURSIVE Dec(_)
\* '{}'.format(n) and '{:d}'.format(n) for n >= 0
Dec(n) == IF n < 10 THEN <<DigitChars[n + 1]>>
          ELSE Dec(n \div 10) \o <<DigitChars[(n % 10) + 1]>>

\* '{:02d}'.format(n) for n >= 0
Dec02(n) == IF n < 10 THEN <<"0">> \o Dec(n) ELSE Dec(n)

\* s.startswith(p)
StartsWith(s, p) == Len(s) >= Len(p) /\ SubSeq(s, 1, Len(p)) = p

kNAXIS == <<"N", "A", "X", "I", "S">>
kCTYPE == <<"C", "T", "Y", "P", "E">>
kCRVAL == <<"C", "R", "V", "A", "L">>
kCDELT == <<"C", "D", "E", "L", "T">>
kCRPIX == <<"C", "R", "P", "I", "X">>
kCUNIT == <<"C", "U", "N", "I", "T">>
kSTOKES == <<"S", "T", "O", "K", "E", "S">>
kFREQ == <<"F", "R", "E", "Q">>
kRESTFRQ == <<"R", "E", "S", "T", "F", "R", "Q">>
kPC == <<"P", "C">>
kPC0 == <<"P", "C", "0">>

\* keys2chng of headersqueeze, keys2analy of headerparse
keys2chng == <<kNAXIS, kCTYPE, kCRVAL, kCDELT, kCRPIX, kCUNIT>>

\* '{}{}'.format(k, i)
AxisKey(k, i) == k \o Dec(i)

\* 'PC{:02d}_{:d}'.format(i, j)
PCKey(i, j) == kPC \o Dec02(i) \o <<"_">> \o Dec(j)

---------------------------------------------------------------------------
(* Headers *)

\* header[k] = v
HSet(h, k, v) == (k :> v) @@ h

\* header.remove(k)
HRemove(h, k) == [x \in (DOMAIN h) \ {k} |-> h[x]] @@ <<>>

---------------------------------------------------------------------------
(* headersqueeze *)

\* dshape[::-1]: the axis lengths in header order (header axis 1 first)
Reversed(s) == [i \in 1..Len(s) |-> s[Len(s) + 1 - i]]

\* nsdim: the number of single-dimensional entries
nsdimOf(dshape) == Cardinality({a \in 1..Len(dshape) : dshape[a] = 1})

\* a mutant of nonsdimOf: counts every axis
nonsdimAll(dshape) == Len(dshape)

\* nonsdim: the number of non-single-dimensional entries
nonsdimOf(dshape) == Len(dshape) - nsdimOf(dshape)

\* header[k_] of a keyword the header does not hold raises KeyError, which
\* no routine but read catches: the header keeps what was done to it so far
\* and is marked.
kKeyError == <<"KeyError">>
Raise(h) == HSet(h, kKeyError, TRUE)
Raised(h) == kKeyError \in DOMAIN h

\* a mutant of AxisKeyStep: the key keeps its original axis index
AxisKeyStepNoRenumber(h, k, idx, dim, idx_nonsdim) ==
    LET k_ == AxisKey(k, idx + 1)
    IN  IF k_ \notin DOMAIN h THEN Raise(h)
        ELSE LET v == h[k_]
                 h1 == HRemove(h, k_)
             IN  IF dim > 1 THEN HSet(h1, AxisKey(k, idx + 1), v)
                 ELSE IF k = kCTYPE /\ StartsWith(v, kSTOKES)
                      THEN IF AxisKey(kCRVAL, idx + 1) \in DOMAIN h1
                           THEN HSet(h1, kSTOKES, h1[AxisKey(kCRVAL, idx + 1)])
                           ELSE Raise(h1)
                      ELSE h1

\* the body of the loop over keys2chng: one per-axis key of header axis idx+1
AxisKeyStep(h, k, idx, dim, idx_nonsdim) ==
    LET k_ == AxisKey(k, idx + 1)
    IN  IF k_ \notin DOMAIN h THEN Raise(h)
        ELSE LET v == h[k_]
                 h1 == HRemove(h, k_)
             IN  IF dim > 1 THEN HSet(h1, AxisKey(k, idx_nonsdim), v)
                 ELSE IF k = kCTYPE /\ StartsWith(v, kSTOKES)
                      THEN IF AxisKey(kCRVAL, idx + 1) \in DOMAIN h1
                           THEN HSet(h1, kSTOKES, h1[AxisKey(kCRVAL, idx + 1)])
                           ELSE Raise(h1)
                      ELSE h1

RECURSIVE AxisKeysLoop(_, _, _, _, _)
\* for k in keys2chng, from the ki-th key on
AxisKeysLoop(h, ki, idx, dim, idx_nonsdim) ==
    IF ki > Len(keys2chng) \/ Raised(h) THEN h
    ELSE AxisKeysLoop(AxisKeyStep(h, keys2chng[ki], idx, dim, idx_nonsdim),
                      ki + 1, idx, dim, idx_nonsdim)

RECURSIVE AxesLoop(_, _, _, _)
\* for idx, dim in enumerate(dshape[::-1]), from idx on
AxesLoop(h, rshape, idx, idx_nonsdim) ==
    IF idx >= Len(rshape) \/ Raised(h) THEN h
    ELSE LET dim == rshape[idx + 1]
             n == IF dim > 1 THEN idx_nonsdim + 1 ELSE idx_nonsdim
         IN  AxesLoop(AxisKeysLoop(h, 1, idx, dim, n), rshape, idx + 1, n)

\* a mutant of PCStep: only the first index is compacted
PCStepPartial(h, idx1, dim1, idx_nonsdim1, idx2, dim2, idx_nonsdim2) ==
    LET k_ == PCKey(idx1 + 1, idx2 + 1)
    IN  IF k_ \in DOMAIN h
        THEN LET v == h[k_]
                 h1 == HRemove(h, k_)
             IN  IF dim1 > 1 /\ dim2 > 1
                 THEN HSet(h1, PCKey(idx_nonsdim1, idx2 + 1), v)
                 ELSE h1
        ELSE h

\* the body of the inner loop over the transform matrix: the entry (idx1+1, idx2+1)
PCStep(h, idx1, dim1, idx_nonsdim1, idx2, dim2, idx_nonsdim2) ==
    LET k_ == PCKey(idx1 + 1, idx2 + 1)
    IN  IF k_ \in DOMAIN h
        THEN LET v == h[k_]
                 h1 == HRemove(h, k_)
             IN  IF dim1 > 1 /\ dim2 > 1
                 THEN HSet(h1, PCKey(idx_nonsdim1, idx_nonsdim2), v)
                 ELSE h1
        ELSE h

RECURSIVE PCInnerLoop(_, _, _, _, _, _, _)
\* for idx2, dim2 in enumerate(dshape[::-1]), from idx2 on
PCInnerLoop(h, rshape, idx1, dim1, idx_nonsdim1, idx2, idx_nonsdim2) ==
    IF idx2 >= Len(rshape) \/ Raised(h) THEN h
    ELSE LET dim2 == rshape[idx2 + 1]
             n2 == IF dim2 > 1 THEN idx_nonsdim2 + 1 ELSE idx_nonsdim2
         IN  PCInnerLoop(PCStep(h, idx1, dim1, idx_nonsdim1, idx2, dim2, n2),
                         rshape, idx1, dim1, idx_nonsdim1, idx2 + 1, n2)

RECURSIVE PCOuterLoop(_, _, _, _)
\* for idx1, dim1 in enumerate(dshape[::-1]), from idx1 on
PCOuterLoop(h, rshape, idx1, idx_nonsdim1) ==
    IF idx1 >= Len(rshape) \/ Raised(h) THEN h
    ELSE LET dim1 == rshape[idx1 + 1]
             n1 == IF dim1 > 1 THEN idx_nonsdim1 + 1 ELSE idx_nonsdim1
         IN  PCOuterLoop(PCInnerLoop(h, rshape, idx1, dim1, n1, 0, 0),
                         rshape, idx1 + 1, n1)

\* np.squeeze(data): the shape without its axes of length 1
Squeezed(dshape) == SelectSeq(dshape, LAMBDA d : d # 1)

\* headersqueeze(header, data): the pair it returns.  d is the array:
\* [shape, nan (whether it holds a NaN), cells (its content)].  When a
\* KeyError was raised the header is marked and nothing is returned.
headersqueeze(h, d) ==
    IF nsdimOf(d.shape) = 0 THEN [header |-> h, data |-> d]
    ELSE LET rshape == Reversed(d.shape)
             h1 == AxesLoop(h, rshape, 0, 0)
             h2 == PCOuterLoop(h1, rshape, 0, 0)
         IN  IF Raised(h2) THEN [header |-> h2, data |-> d]
             ELSE [header |-> HSet(h2, kNAXIS, nonsdimOf(d.shape)),
                   data |-> [d EXCEPT !.shape = Squeezed(d.shape)]]

---------------------------------------------------------------------------
(* write *)

\* a mutant of TooManyDims: the singleton axes are not discounted
TooManyDimsAll(dshape) == Len(dshape) > 3

\* dim - np.count_nonzero(np.array(dshape) == 1) > 3
TooManyDims(dshape) == Len(dshape) - nsdimOf(dshape) > 3

\* The records hdulnew holds when it is written.
CompHDUs(mask) ==
    IF mask THEN <<"PrimaryHDU", "CompImageHDU", "CompImageHDU(mask)">>
    ELSE <<"PrimaryHDU", "CompImageHDU">>

\* write(fname, data, header, mask, fix_invalid): its return value, the
\* header and array it ends with and the file system it leaves.  The
\* container codec (CompImageHDU, writeto) is taken to succeed.
write(fname, d, h, mask, fix_invalid, files) ==
    IF TooManyDims(d.shape)
    THEN [ret |-> 0, header |-> h, data |-> d, fs |-> files]
    ELSE LET d1 == IF fix_invalid THEN [d EXCEPT !.nan = FALSE] ELSE d
             sq == headersqueeze(h, d1)
         IN  [ret |-> 1, header |-> sq.header, data |-> sq.data,
              fs |-> HSet(files, fname, CompHDUs(mask))]

---------------------------------------------------------------------------
(* Inputs of headersqueeze and write *)

cHPLN == <<"H", "P", "L", "N", "-", "T", "A", "N">>
cHPLT == <<"H", "P", "L", "T", "-", "T", "A", "N">>

\* The CTYPE of header axis i when stokesAxis carries the polarization.
CtypeOf(i, stokesAxis) ==
    IF i = stokesAxis THEN kSTOKES
    ELSE IF i = 1 THEN cHPLN
    ELSE IF i = 2 THEN cHPLT
    ELSE kFREQ

\* The value the input header holds for the per-axis key k of axis i: each
\* is tagged with its axis, so that a renumbered key shows where it came from.
AxisVal(k, i, rshape, stokesAxis) ==
    IF k = kNAXIS THEN rshape[i]
    ELSE IF k = kCTYPE THEN CtypeOf(i, stokesAxis)
    ELSE IF k = kCRVAL THEN 10 * i + 1
    ELSE IF k = kCDELT THEN 10 * i + 2
    ELSE IF k = kCRPIX THEN 10 * i + 3
    ELSE <<"u">> \o Dec(i)

\* The value the input header holds for the transform-matrix entry (i, j).
PCVal(i, j) == 100 * i + j

KeyNames == {keys2chng[ki] : ki \in 1..Len(keys2chng)}

\* The function holding the <<key, value>> pairs of a set.
HeaderOf(pairs) ==
    [x \in {p[1] : p \in pairs} |-> (CHOOSE p \in pairs : p[1] = x)[2]] @@ <<>>

\* A header that satisfies the Array invariant for dshape: NAXIS, the six
\* per-axis keys of every axis and, with pcOn, the whole transform matrix.
InputHeader(dshape, stokesAxis, pcOn) ==
    LET n == Len(dshape)
        rshape == Reversed(dshape)
    IN  HeaderOf({<<kNAXIS, n>>}
            \cup {<<AxisKey(k, i), AxisVal(k, i, rshape, stokesAxis)>> :
                     k \in KeyNames, i \in 1..n}
            \cup (IF pcOn
                  THEN {<<PCKey(i, j), PCVal(i, j)>> : i \in 1..n, j \in 1..n}
                  ELSE {}))

Shapes == UNION {[1..n -> 1..MaxDim] : n \in 0..MaxNdim}

NoFiles == [x \in {} |-> <<>>]
OutPath == "out.fits"

InitSqueeze ==
    \E dshape \in Shapes, pcOn \in BOOLEAN, nan \in BOOLEAN,
       fix_invalid \in BOOLEAN, mask \in BOOLEAN :
      \E stokesAxis \in 0..Len(dshape) :
        /\ pc = "start"
        /\ args = [fname |-> OutPath, fix_invalid |-> fix_invalid, mask |-> mask,
                   header |-> InputHeader(dshape, stokesAxis, pcOn),
                   data |-> [shape |-> dshape, nan |-> nan, cells |-> <<>>]]
        /\ header = args.header
        /\ data = args.data
        /\ ret = None
        /\ fs = NoFiles
        /\ out = {}
        /\ handles = {}
        /\ loc = <<>>

\* header, data = headersqueeze(header, data)
HeaderSqueeze ==
    /\ pc = "start"
    /\ LET r == headersqueeze(header, data)
       IN  /\ header' = r.header
           /\ data' = r.data
    /\ pc' = "headersqueeze.done"
    /\ UNCHANGED <<args, ret, fs, out, handles, loc>>

\* ret = write(fname, data, header, mask, fix_invalid)
Write ==
    /\ pc = "start"
    /\ LET r == write(args.fname, data, header, args.mask, args.fix_invalid, fs)
       IN  /\ ret' = r.ret
           /\ header' = r.header
           /\ data' = r.data
           /\ fs' = r.fs
    /\ pc' = "write.done"
    /\ UNCHANGED <<args, out, handles, loc>>

NextSqueeze == HeaderSqueeze \/ Write

SpecSqueeze == InitSqueeze /\ [][NextSqueeze]_vars

---------------------------------------------------------------------------
(* Claims about headersqueeze and write *)

\* The header axes (1-based) of a numpy shape that have a length other than 1.
NonSingletonAxes(dshape) ==
    {i \in 1..Len(dshape) : Reversed(dshape)[i] # 1}

\* The compacted index of header axis i: the non-singleton axes up to it.
Compacted(dshape, i) ==
    Cardinality({x \in NonSingletonAxes(dshape) : x <= i})

\* The transform-matrix keywords a header holds.
PCKeysOf(h) == {k \in DOMAIN h : StartsWith(k, kPC)}

HasSingleton(dshape) == \E a \in 1..Len(dshape) : dshape[a] = 1

\* C1: after headersqueeze on a pair that satisfies the Array invariant, the
\* returned array's ndim equals the returned NAXIS and the array has no axis
\* of length 1; when every input axis has length 1 both are 0; when no input
\* axis has length 1, header and array are returned unchanged.
C1_SqueezeShapeInvariant ==
    pc = "headersqueeze.done" =>
        LET in == args.data.shape
        IN  /\ Len(data.shape) = header[kNAXIS]
            /\ \A a \in 1..Len(data.shape) : data.shape[a] # 1
            /\ (\A a \in 1..Len(in) : in[a] = 1)
                   => header[kNAXIS] = 0 /\ Len(data.shape) = 0
            /\ ~HasSingleton(in) => header = args.header /\ data = args.data

C1_Witness ==
    /\ pc = "headersqueeze.done"
    /\ Len(args.data.shape) >= 3
    /\ HasSingleton(args.data.shape)
    /\ Len(data.shape) >= 2

\* C2: after headersqueeze on a header that holds a transform-matrix entry for
\* every pair of original axes, every pair (i, j) of non-singleton axes has
\* its original value at the entry of the compacted indices, and every entry
\* that is left has both indices within the new NAXIS and holds the value of
\* a pair of non-singleton axes.
C2_PCRemapped ==
    (pc = "headersqueeze.done"
       /\ \A i, j \in 1..Len(args.data.shape) : PCKey(i, j) \in DOMAIN args.header)
    => LET in == args.data.shape
           keep == NonSingletonAxes(in)
       IN  /\ \A i, j \in keep :
                 LET k == PCKey(Compacted(in, i), Compacted(in, j))
                 IN  k \in DOMAIN header /\ header[k] = args.header[PCKey(i, j)]
           /\ \A k \in PCKeysOf(header) :
                 /\ \E a, b \in 1..header[kNAXIS] : k = PCKey(a, b)
                 /\ \E i, j \in keep : header[k] = args.header[PCKey(i, j)]

C2_Witness ==
    /\ pc = "headersqueeze.done"
    /\ PCKeysOf(args.header) # {}
    /\ Len(args.data.shape) >= 3
    /\ Reversed(args.data.shape)[1] = 1
    /\ Cardinality(NonSingletonAxes(args.data.shape)) >= 2
    /\ PCKey(1, 2) \in DOMAIN header

\* C5: write returns 0 exactly when the array has more than 3 axes of a
\* length other than 1; it then creates no file and leaves array and header
\* as they were; otherwise it returns 1, the file exists and array and
\* header are squeezed.
C5_WriteGuard ==
    pc = "write.done" =>
        LET in == args.data.shape
            n == Cardinality({a \in 1..Len(in) : in[a] # 1})
        IN  /\ ret \in {0, 1}
            /\ ret = 0 <=> n > 3
            /\ ret = 0 => /\ fs = NoFiles
                          /\ data = args.data
                          /\ header = args.header
            /\ ret = 1 => /\ args.fname \in DOMAIN fs
                          /\ header[kNAXIS] = n
                          /\ Len(data.shape) = n
                          /\ \A a \in 1..n : data.shape[a] # 1

C5_Witness ==
    /\ pc = "write.done"
    /\ ret = 0
    /\ args.data.nan
    /\ args.fix_invalid

\* C10: after headersqueeze on an input with a singleton axis, for every m in
\* 1..NAXIS the six per-axis keys of axis m exist and hold the values of the
\* m-th non-singleton original axis, NAXISm is the matching length of the
\* squeezed array, and no per-axis key of an index above NAXIS is left.
C10_AxisKeysRenumbered ==
    (pc = "headersqueeze.done" /\ HasSingleton(args.data.shape))
    => LET in == args.data.shape
           keep == NonSingletonAxes(in)
           n == header[kNAXIS]
       IN  /\ \A i \in keep : \A k \in KeyNames :
                 LET m == Compacted(in, i)
                 IN  /\ m \in 1..n
                     /\ AxisKey(k, m) \in DOMAIN header
                     /\ header[AxisKey(k, m)] = args.header[AxisKey(k, i)]
           /\ \A m \in 1..n :
                 /\ \E i \in keep : Compacted(in, i) = m
                 /\ header[AxisKey(kNAXIS, m)] = data.shape[Len(data.shape) + 1 - m]
           /\ \A m \in (n + 1)..Len(in) : \A k \in KeyNames :
                 AxisKey(k, m) \notin DOMAIN header

C10_Witness ==
    /\ pc = "headersqueeze.done"
    /\ Len(args.data.shape) >= 3
    /\ Reversed(args.data.shape)[1] = 1
    /\ header[kNAXIS] >= 2
    /\ header[AxisKey(kCRVAL, 1)] = args.header[AxisKey(kCRVAL, 2)]

---------------------------------------------------------------------------
(* headerfix *)

\* Largest axis index of the transform-matrix keys drawn for headerfix.
MaxFixAxes == 2

LowerChars == <<"p", "c">>
UpperChars == <<"P", "C">>

\* c.upper(), for the letters the model's keywords can hold in lower case
UpperChar(c) ==
    IF \E n \in 1..Len(LowerChars) : LowerChars[n] = c
    THEN UpperChars[CHOOSE n \in 1..Len(LowerChars) : LowerChars[n] = c]
    ELSE c

\* k.upper()
Upper(s) == [n \in 1..Len(s) |-> UpperChar(s[n])]

RECURSIVE Remove(_, _)
\* s.replace(old, ''): every occurrence of old is taken out, left to right
Remove(s, old) ==
    IF Len(s) < Len(old) THEN s
    ELSE IF SubSeq(s, 1, Len(old)) = old
         THEN Remove(SubSeq(s, Len(old) + 1, Len(s)), old)
         ELSE <<s[1]>> \o Remove(Tail(s), old)

RECURSIVE Split(_, _)
\* s.split(c) for a one-character separator c
Split(s, c) ==
    IF \A n \in 1..Len(s) : s[n] # c THEN <<s>>
    ELSE LET n == CHOOSE x \in 1..Len(s) :
                      s[x] = c /\ \A y \in 1..(x - 1) : s[y] # c
         IN  <<SubSeq(s, 1, n - 1)>> \o Split(SubSeq(s, n + 1, Len(s)), c)

\* a mutant of ResetValue: every entry is reset to 1.0
ResetValueOnes(parts) == 1

\* the value PC_coor writes: 1.0 on the diagonal and 0.0 off it
ResetValue(parts) == IF parts[1] = parts[2] THEN 1 ELSE 0

\* hd_ = 'PC0' + pcidxs
FixedKey(pcidxs) == kPC0 \o pcidxs

\* the body of the loop over the header's keywords, for the keyword k:
\* the header after it and whether k joins keys2remove.  Unpacking
\* pcidxs.split('_') into two names raises ValueError unless it has two parts.
kValueError == <<"ValueError">>
HeaderFixStep(h, k, PC_coor) ==
    IF StartsWith(Upper(k), kPC) /\ ~StartsWith(Upper(k), kPC0)
    THEN LET pcidxs == Remove(Upper(k), kPC)
             hd_ == FixedKey(pcidxs)
             parts == Split(pcidxs, "_")
         IN  IF PC_coor
             THEN IF Len(parts) # 2 THEN [h |-> HSet(h, kValueError, TRUE), rm |-> TRUE]
                  ELSE [h |-> HSet(h, hd_, ResetValue(parts)), rm |-> TRUE]
             ELSE [h |-> HSet(h, hd_, h[k]), rm |-> TRUE]
    ELSE [h |-> h, rm |-> FALSE]

RECURSIVE HeaderFixLoop(_, _, _, _)
\* for k in header, over the keywords not visited yet.  The keywords the
\* loop adds all start with PC0, so that visiting them changes nothing, and
\* no two keywords are given the same hd_: the order of the visits does not
\* show in the result.
HeaderFixLoop(h, todo, keys2remove, PC_coor) ==
    IF todo = {} \/ kValueError \in DOMAIN h THEN [h |-> h, keys2remove |-> keys2remove]
    ELSE LET k == CHOOSE x \in todo : TRUE
             r == HeaderFixStep(h, k, PC_coor)
         IN  HeaderFixLoop(r.h, todo \ {k},
                           IF r.rm THEN keys2remove \cup {k} ELSE keys2remove,
                           PC_coor)

RECURSIVE RemoveKeys(_, _)
\* for k in keys2remove: header.remove(k)
RemoveKeys(h, keys2remove) ==
    IF keys2remove = {} THEN h
    ELSE LET k == CHOOSE x \in keys2remove : TRUE
         IN  RemoveKeys(HRemove(h, k), keys2remove \ {k})

\* headerfix(header, PC_coor): the header it returns, or the header marked
\* with the ValueError it raised
headerfix(h, PC_coor) ==
    LET r == HeaderFixLoop(h, DOMAIN h, {}, PC_coor)
    IN  IF kValueError \in DOMAIN r.h THEN r.h ELSE RemoveKeys(r.h, r.keys2remove)

\* The keyword CASA 5.4+ writes for the transform-matrix entry (i, j).
LegacyPCKey(i, j) == kPC \o Dec(i) \o <<"_">> \o Dec(j)

FixAxes == 1..MaxFixAxes

\* The headers drawn for headerfix: NAXIS and CTYPE1, the legacy keys of a
\* set of entries and, with fixedOn, every entry under the keyword
\* headerfix writes.
InitFix ==
    \E legacy \in SUBSET (FixAxes \X FixAxes), fixedOn \in BOOLEAN, PC_coor \in BOOLEAN :
        /\ pc = "start"
        /\ args = [PC_coor |-> PC_coor,
                   header |-> HeaderOf(
                       {<<kNAXIS, MaxFixAxes>>, <<AxisKey(kCTYPE, 1), cHPLN>>}
                       \cup {<<LegacyPCKey(e[1], e[2]), PCVal(e[1], e[2])>> : e \in legacy}
                       \cup (IF fixedOn
                             THEN {<<PCKey(i, j), 1000 + PCVal(i, j)>> : i, j \in FixAxes}
                             ELSE {}))]
        /\ header = args.header
        /\ data = None
        /\ ret = None
        /\ fs = NoFiles
        /\ out = {}
        /\ handles = {}
        /\ loc = <<>>

\* header = headerfix(header, PC_coor)
HeaderFix ==
    /\ pc = "start"
    /\ header' = headerfix(header, args.PC_coor)
    /\ pc' = IF kValueError \in DOMAIN header' THEN "headerfix.raised" ELSE "headerfix.done"
    /\ UNCHANGED <<args, data, ret, fs, out, handles, loc>>

\* A second headerfix of the header the first one returned.
HeaderFixAgain ==
    /\ pc = "headerfix.done"
    /\ header' = headerfix(header, args.PC_coor)
    /\ pc' = "headerfix.twice"
    /\ UNCHANGED <<args, data, ret, fs, out, handles, loc>>

NextFix == HeaderFix \/ HeaderFixAgain

SpecFix == InitFix /\ [][NextFix]_vars

\* 'PC{:02d}_{:02d}'.format(i, j): the keyword with both indices padded
PaddedPCKey(i, j) == kPC \o Dec02(i) \o <<"_">> \o Dec02(j)

\* The entries whose legacy keyword the input header holds.
LegacyEntries(h) ==
    {e \in FixAxes \X FixAxes : LegacyPCKey(e[1], e[2]) \in DOMAIN h}

\* C7 as stated: after headerfix every legacy key PCi_j is gone and the key
\* with both indices zero-padded to two digits (PC01_01 for PC1_1) holds 1.0
\* or 0.0 (reset) or the legacy value (no reset).
C7_Original_BothIndicesPadded ==
    pc = "headerfix.done" =>
        \A e \in LegacyEntries(args.header) :
            /\ LegacyPCKey(e[1], e[2]) \notin DOMAIN header
            /\ PaddedPCKey(e[1], e[2]) \in DOMAIN header
            /\ header[PaddedPCKey(e[1], e[2])] =
                   IF args.PC_coor THEN (IF e[1] = e[2] THEN 1 ELSE 0)
                   ELSE args.header[LegacyPCKey(e[1], e[2])]

\* C7 amended: after headerfix every legacy key PCi_j is gone and the key
\* 'PC0' + 'i_j' (PC01_1 for PC1_1: only the first index is padded) holds 1.0
\* if i = j and 0.0 otherwise (reset), or the legacy value (no reset); every
\* transform keyword left starts with PC0, and the other keywords are as
\* they were.
C7_HeaderFixCanonical ==
    pc = "headerfix.done" =>
        /\ \A e \in LegacyEntries(args.header) :
              /\ LegacyPCKey(e[1], e[2]) \notin DOMAIN header
              /\ PCKey(e[1], e[2]) \in DOMAIN header
              /\ header[PCKey(e[1], e[2])] =
                     IF args.PC_coor THEN (IF e[1] = e[2] THEN 1 ELSE 0)
                     ELSE args.header[LegacyPCKey(e[1], e[2])]
        /\ \A k \in PCKeysOf(header) : StartsWith(k, kPC0)
        /\ \A k \in DOMAIN args.header :
              ~StartsWith(k, kPC) => k \in DOMAIN header /\ header[k] = args.header[k]
        /\ \A i, j \in FixAxes :
              (PCKey(i, j) \in DOMAIN args.header /\ <<i, j>> \notin LegacyEntries(args.header))
              => PCKey(i, j) \in DOMAIN header /\ header[PCKey(i, j)] = args.header[PCKey(i, j)]

C7_Witness ==
    /\ pc = "headerfix.done"
    /\ args.PC_coor
    /\ {<<1, 1>>, <<1, 2>>} \subseteq LegacyEntries(args.header)
    /\ PCKey(1, 2) \in DOMAIN args.header
    /\ header[PCKey(1, 1)] = 1
    /\ header[PCKey(1, 2)] = 0

---------------------------------------------------------------------------
(* Rationals: the floating point values wrap computes *)

RECURSIVE GCD(_, _)
GCD(a, b) == IF b = 0 THEN a ELSE GCD(b, a % b)

Abs(x) == IF x < 0 THEN -x ELSE x

NaN == <<0, 0>>
IsNaN(r) == r[2] = 0

\* n / d in lowest terms with a positive denominator; x / 0 is NaN
Rat(n, d) ==
    IF d = 0 THEN NaN
    ELSE LET g == GCD(Abs(n), Abs(d))
             sgn == IF d < 0 THEN -1 ELSE 1
         IN  <<sgn * (n \div g), sgn * (d \div g)>>

RAdd(a, b) == IF IsNaN(a) \/ IsNaN(b) THEN NaN
              ELSE Rat(a[1] * b[2] + b[1] * a[2], a[2] * b[2])
RSub(a, b) == IF IsNaN(a) \/ IsNaN(b) THEN NaN
              ELSE Rat(a[1] * b[2] - b[1] * a[2], a[2] * b[2])
RMulInt(a, n) == IF IsNaN(a) THEN NaN ELSE Rat(a[1] * n, a[2])
RDivInt(a, n) == IF IsNaN(a) THEN NaN ELSE Rat(a[1], a[2] * n)

---------------------------------------------------------------------------
(* Sorting *)

RECURSIVE InsertBy(_, _, _)
\* x put into the sorted sequence s after every element whose key is not larger
InsertBy(s, x, key) ==
    IF s = <<>> THEN <<x>>
    ELSE IF key[s[1]] <= key[x] THEN <<s[1]>> \o InsertBy(Tail(s), x, key)
    ELSE <<x>> \o s

RECURSIVE SortBy(_, _)
\* The sequence s in ascending order of key, elements of equal key in the
\* order they have in s.
SortBy(s, key) ==
    IF s = <<>> THEN <<>>
    ELSE InsertBy(SortBy(SubSeq(s, 1, Len(s) - 1), key), s[Len(s)], key)

\* np.argsort(vals), as 1-based positions.  Ties keep their order: numpy
\* sorts arrays this short by insertion.
ArgSort(vals) == SortBy([i \in 1..Len(vals) |-> i], vals)

\* np.diff(v)
Diff(v) == [k \in 1..(Len(v) - 1) |-> v[k + 1] - v[k]]

---------------------------------------------------------------------------
(* headerparse *)

\* the last axis in 1..NAXIS whose CTYPE starts with STOKES, or None (0)
StokesAxisOf(h) ==
    LET found == {dim \in 1..h[kNAXIS] : StartsWith(h[AxisKey(kCTYPE, dim)], kSTOKES)}
    IN  IF found = {} THEN 0 ELSE CHOOSE dim \in found : \A x \in found : x <= dim

\* headerparse(header): stokesinfo, with axis 0 for None
headerparse(h) ==
    LET axis == StokesAxisOf(h)
    IN  [axis |-> axis,
         headernew |-> IF axis = 0 THEN <<>>
                       ELSE HeaderOf({<<AxisKey(k, 4), h[AxisKey(k, axis)]>> : k \in KeyNames})]

---------------------------------------------------------------------------
(* wrap: its inputs *)

\* Largest number of band paths passed to wrap.
MaxBand == 4
\* Largest center frequency (in GHz) of a band file.
MaxFreq == 4
\* Largest number of polarizations of a band file.
MaxPol == 2

\* The band files' names, which sort (as strings) in this order.
BandPaths == <<"band1.fits", "band2.fits", "band3.fits", "band4.fits",
               "band5.fits", "band6.fits">>

PathRank == [p \in {BandPaths[i] : i \in 1..Len(BandPaths)} |->
                CHOOSE i \in 1..Len(BandPaths) : BandPaths[i] = p]

\* The name wrap makes up from TELESCOP and DATE-OBS.
SynthPath == "EOVSA.20210507T190000.000000.allbd.fits"

\* The numpy shape of a band file's array: an image of MaxDim x MaxDim
\* pixels, alone (2-D), one per polarization (3-D), or one per polarization
\* with a frequency axis of length 1 (4-D).
FileShape(ndim, npol) ==
    IF ndim = 2 THEN <<MaxDim, MaxDim>>
    ELSE IF ndim = 3 THEN <<npol, MaxDim, MaxDim>>
    ELSE <<npol, 1, MaxDim, MaxDim>>

\* The header of the band file p of the call a: the last axis of a 3-D or
\* 4-D file is STOKES, axis 3 of a 4-D file is FREQ with the band's center
\* frequency and width, and RESTFRQ is the center frequency.
FileHeader(a, p) ==
    LET base == InputHeader(FileShape(a.fileNdim, a.npol),
                            IF a.fileNdim = 2 THEN 0 ELSE a.fileNdim, TRUE)
        f == Rat(a.freq[p], 1)
    IN  IF a.fileNdim = 4
        THEN (kRESTFRQ :> f) @@ (AxisKey(kCRVAL, 3) :> f)
                 @@ (AxisKey(kCDELT, 3) :> Rat(1, 2)) @@ base
        ELSE (kRESTFRQ :> f) @@ base

\* What a cell of the cube holds: zeros, or a plane of a band file's array
\* (plane 0 is the whole 2-D array).
Zero == <<"", 0>>

\* The center frequencies of the files that exist ascend with their names.
Ascending(f) == \A x, y \in DOMAIN f : PathRank[x] < PathRank[y] => f[x] < f[y]

\* The band paths in ascending and in descending order of their names.
Orders(n) == {[i \in 1..n |-> BandPaths[i]], [i \in 1..n |-> BandPaths[n + 1 - i]]}

\* The calls of wrap: n band paths in either order of their names, some of
\* them existing; the files are all 2-D, 3-D or 4-D; fitsfiles is a list or
\* (where it shows: every file exists and has a CRVAL3) a numpy array.
InitWrap ==
    \E n \in 0..MaxBand, fileNdim \in 2..4, docompress \in BOOLEAN,
       outfitsfile \in {None, OutPath} :
      \E fitsfiles \in Orders(n), E \in SUBSET {BandPaths[i] : i \in 1..n},
         npol \in (IF fileNdim = 2 THEN {1} ELSE 1..MaxPol) :
        \E freq \in {f \in [E -> 1..MaxFreq] : Ascending(f)},
           isArray \in (IF fileNdim >= 3 /\ Cardinality(E) = n THEN BOOLEAN ELSE {FALSE}) :
          /\ pc = "start"
          /\ args = [fitsfiles |-> fitsfiles, isArray |-> isArray,
                     outfitsfile |-> outfitsfile, docompress |-> docompress,
                     fix_invalid |-> TRUE, mask |-> FALSE,
                     fileNdim |-> fileNdim, npol |-> npol, freq |-> freq,
                     fs |-> [p \in E |-> <<"ImageHDU">>]]
          /\ header = <<>>
          /\ data = None
          /\ ret = None
          /\ fs = args.fs
          /\ out = {}
          /\ handles = {}
          /\ loc = [fitsfiles |-> fitsfiles, nband |-> 0, fits_exist |-> <<>>,
                    idx_fits_exist |-> <<>>, outfitsfile |-> outfitsfile,
                    cfreqs |-> <<>>, cdelts |-> <<>>, df |-> NaN]

---------------------------------------------------------------------------
(* wrap: its steps *)

\* a mutant of TooFewFiles: only the empty list is refused
TooFewFilesEmpty(fitsfiles) == Len(fitsfiles) < 1

\* len(fitsfiles) <= 1
TooFewFiles(fitsfiles) == Len(fitsfiles) <= 1

\* if len(fitsfiles) <= 1: print, return ''
WrapAbort ==
    /\ pc = "start"
    /\ TooFewFiles(args.fitsfiles)
    /\ out' = out \cup {"There is only one files in the fits file list. wrap is aborted!"}
    /\ ret' = ""
    /\ pc' = "wrap.done"
    /\ UNCHANGED <<args, header, data, fs, handles, loc>>

\* The key the sort probe reads from the band file p: its CRVAL3.
Crval3Key(a, p) ==
    LET v == FileHeader(a, p)[AxisKey(kCRVAL, 3)]
    IN  IF a.fileNdim = 4 THEN v[1] ELSE v

\* The try block that sorts fitsfiles by CRVAL3 and its bare except:
\* fits.getheader raises for a missing file, head['CRVAL3'] for a 2-D file
\* and fitsfiles[pos] for a list, and then the paths are sorted by name.
SortedFiles(a, files) ==
    LET ff == a.fitsfiles
    IN  IF /\ \A i \in 1..Len(ff) : ff[i] \in DOMAIN files
           /\ a.fileNdim >= 3
           /\ a.isArray
        THEN LET pos == ArgSort([i \in 1..Len(ff) |-> Crval3Key(a, ff[i])])
             IN  [k \in 1..Len(ff) |-> ff[pos[k]]]
        ELSE SortBy(ff, PathRank)

\* idx_fits_exist: the 0-based positions in fitsfiles of the files that exist
ExistingPositions(ff, files) ==
    LET pos1 == SelectSeq([i \in 1..Len(ff) |-> i], LAMBDA i : ff[i] \in DOMAIN files)
    IN  [k \in 1..Len(pos1) |-> pos1[k] - 1]

\* The sort and the scan for the files that exist; ValueError when none does.
WrapScan ==
    /\ pc = "start"
    /\ ~TooFewFiles(args.fitsfiles)
    /\ LET ff == SortedFiles(args, fs)
           idx == ExistingPositions(ff, fs)
       IN  /\ loc' = [loc EXCEPT !.fitsfiles = ff, !.nband = Len(ff),
                                 !.fits_exist = [k \in 1..Len(idx) |-> ff[idx[k] + 1]],
                                 !.idx_fits_exist = idx]
           /\ pc' = IF Len(idx) = 0 THEN "wrap.raised" ELSE "wrap.scanned"
    /\ UNCHANGED <<args, header, data, ret, fs, out, handles>>

\* The output name (made up from the first existing file, whose handle is
\* opened and closed, when none is given), cp of the first existing file to
\* it, and fits.open(outfitsfile, mode='update'), whose last header is the
\* template.
WrapStage ==
    /\ pc = "wrap.scanned"
    /\ LET first == loc.fits_exist[1]
           outf == IF loc.outfitsfile = None THEN SynthPath ELSE loc.outfitsfile
       IN  /\ loc' = [loc EXCEPT !.outfitsfile = outf]
           /\ fs' = HSet(fs, outf, fs[first])
           /\ handles' = handles \cup {[var |-> "hdu0", path |-> outf]}
           /\ header' = FileHeader(args, first)
    /\ pc' = "wrap.staged"
    /\ UNCHANGED <<args, data, ret, out>>

\* The plane of a band file's array that goes to polarization pidx (1-based).
PlaneOf(ndim, pidx) == IF ndim = 2 THEN 0 ELSE pidx

\* data after the loop over fits_exist: zeros but for the slot
\* idx_fits_exist[sidx] of every existing file, in every polarization
FilledCells(a, npol, nbd, fits_exist, idx) ==
    [pidx \in 1..npol |->
        [slot \in 1..nbd |->
            IF \E sidx \in 1..Len(idx) : idx[sidx] = slot - 1
            THEN <<fits_exist[CHOOSE sidx \in 1..Len(idx) : idx[sidx] = slot - 1],
                   PlaneOf(a.fileNdim, pidx)>>
            ELSE Zero]]

\* The handles the loop over fits_exist opens and does not close.
BandHandles(fits_exist) ==
    {[var |-> "hdu", path |-> fits_exist[k]] : k \in 1..Len(fits_exist)}

\* data[pidx, ...] = data[pidx, indfreq] is an assignment of len(indfreq)
\* planes to nbd slots: numpy broadcasts one plane to all, copies nbd planes
\* and raises ValueError otherwise.
Broadcastable(nsrc, nbd) == nsrc = nbd \/ nsrc = 1

\* data[pidx, indfreq] assigned to data[pidx, ...], for every pidx
ReorderedCells(cells, indfreq, nbd) ==
    [pidx \in DOMAIN cells |->
        [slot \in 1..nbd |->
            IF Len(indfreq) = 1 THEN cells[pidx][indfreq[1]]
            ELSE cells[pidx][indfreq[slot]]]]

RECURSIVE RSum(_)
RSum(v) == IF v = <<>> THEN Rat(0, 1) ELSE RAdd(v[1], RSum(Tail(v)))

\* a mutant of MeanSpacing: the frequency span over the span of positions
MeanSpacingSpan(cfreqs, idx) ==
    IF Len(cfreqs) < 2 THEN NaN
    ELSE Rat(cfreqs[Len(cfreqs)] - cfreqs[1], idx[Len(idx)] - idx[1])

\* np.nanmean(np.diff(cfreqs) / np.diff(idx_fits_exist)); the mean of no
\* value is NaN
MeanSpacing(cfreqs, idx) ==
    IF Len(cfreqs) < 2 THEN NaN
    ELSE LET dc == Diff(cfreqs)
             di == Diff(idx)
         IN  RDivInt(RSum([k \in 1..Len(dc) |-> Rat(dc[k], di[k])]), Len(dc))

\* 325.e8, in units of 1e8 Hz: the width assumed for every band without imres
AssumedCdelt == 325

\* The frequency block and the polarization block written to the header
\* when the template is not 4-D.
FreqBlock(h, nband, crval, df) ==
    (kNAXIS :> 4) @@ (AxisKey(kNAXIS, 3) :> nband) @@ (AxisKey(kCTYPE, 3) :> kFREQ)
    @@ (AxisKey(kCRVAL, 3) :> crval) @@ (AxisKey(kCDELT, 3) :> df)
    @@ (AxisKey(kCRPIX, 3) :> 1) @@ (AxisKey(kCUNIT, 3) :> <<"H", "z", " ", " ", " ", " ", " ", " ">>)
    @@ h

AssumedXX == -5

StokesBlock(h, stokesinfo) ==
    IF stokesinfo.axis = 0
    THEN (AxisKey(kNAXIS, 4) :> 1) @@ (AxisKey(kCTYPE, 4) :> kSTOKES)
         @@ (AxisKey(kCRVAL, 4) :> AssumedXX) @@ (AxisKey(kCDELT, 4) :> 1)
         @@ (AxisKey(kCRPIX, 4) :> 1)
         @@ (AxisKey(kCUNIT, 4) :> <<" ", " ", " ", " ", " ", " ", " ", " ">>) @@ h
    ELSE stokesinfo.headernew @@ h

\* if header['NAXIS'] != 4: the cube is assembled from 2-D or 3-D files, the
\* bands are sorted by RESTFRQ and the frequency axis is written.
WrapAssemble3 ==
    /\ pc = "wrap.staged"
    /\ header[kNAXIS] # 4
    /\ LET nband == loc.nband
           stokesinfo == headerparse(header)
           npol == IF stokesinfo.axis = 0 THEN 1 ELSE header[AxisKey(kNAXIS, stokesinfo.axis)]
           ny == header[AxisKey(kNAXIS, 2)]
           nx == header[AxisKey(kNAXIS, 1)]
           cells == FilledCells(args, npol, nband, loc.fits_exist, loc.idx_fits_exist)
           cfreqs0 == [k \in 1..Len(loc.fits_exist) |-> args.freq[loc.fits_exist[k]]]
           indfreq == ArgSort(cfreqs0)
           cfreqs == [k \in 1..Len(indfreq) |-> cfreqs0[indfreq[k]]]
           cdelts == [k \in 1..Len(indfreq) |-> AssumedCdelt]
           df == MeanSpacing(cfreqs, loc.idx_fits_exist)
       IN  /\ out' = out \cup {"Failed to read bandwidth information. Set as 325 MHz assuming this is EOVSA data. Use the value of keyword CDELT3 with caution."}
           /\ handles' = handles \cup BandHandles(loc.fits_exist)
           /\ IF Broadcastable(Len(indfreq), nband)
              THEN /\ data' = [shape |-> <<npol, nband, ny, nx>>, nan |-> FALSE,
                               cells |-> ReorderedCells(cells, indfreq, nband)]
                   /\ loc' = [loc EXCEPT !.cfreqs = cfreqs, !.cdelts = cdelts, !.df = df]
                   /\ header' = StokesBlock(FreqBlock(header, nband, Rat(cfreqs[1], 1), df),
                                            stokesinfo)
                   /\ pc' = "wrap.assembled"
              ELSE /\ data' = [shape |-> <<npol, nband, ny, nx>>, nan |-> FALSE,
                               cells |-> cells]
                   /\ loc' = [loc EXCEPT !.cfreqs = cfreqs, !.cdelts = cdelts]
                   /\ header' = header
                   /\ pc' = "wrap.raised"
    /\ UNCHANGED <<args, ret, fs>>

\* else: the cube is assembled from 4-D files, CDELT3 is the mean spacing
\* and CRVAL3 is taken back to band 0.
WrapAssemble4 ==
    /\ pc = "wrap.staged"
    /\ header[kNAXIS] = 4
    /\ LET nband == loc.nband
           npol == header[AxisKey(kNAXIS, 4)]
           ny == header[AxisKey(kNAXIS, 2)]
           nx == header[AxisKey(kNAXIS, 1)]
           cfreqs == [k \in 1..Len(loc.fits_exist) |-> args.freq[loc.fits_exist[k]]]
           cdelts == [k \in 1..Len(loc.fits_exist) |->
                         FileHeader(args, loc.fits_exist[k])[AxisKey(kCDELT, 3)]]
           df == MeanSpacing(cfreqs, loc.idx_fits_exist)
       IN  /\ handles' = handles \cup BandHandles(loc.fits_exist)
           /\ data' = [shape |-> <<npol, nband, ny, nx>>, nan |-> FALSE,
                       cells |-> FilledCells(args, npol, nband, loc.fits_exist,
                                             loc.idx_fits_exist)]
           /\ loc' = [loc EXCEPT !.cfreqs = cfreqs, !.cdelts = cdelts, !.df = df]
           /\ header' = (AxisKey(kCDELT, 3) :> df) @@ (AxisKey(kNAXIS, 3) :> nband)
                        @@ (kNAXIS :> 4)
                        @@ (AxisKey(kCRVAL, 3) :>
                               RSub(header[AxisKey(kCRVAL, 3)],
                                    RMulInt(df, loc.idx_fits_exist[1])))
                        @@ header
           /\ pc' = "wrap.assembled"
    /\ UNCHANGED <<args, ret, fs, out>>

\* The transform matrix set to the identity over 1..NAXIS.
IdentityPC(h) ==
    HeaderOf({<<PCKey(dim1, dim2), IF dim1 = dim2 THEN 1 ELSE 0>> :
                 dim1 \in 1..h[kNAXIS], dim2 \in 1..h[kNAXIS]}) @@ h

\* a mutant of Compressible: a 4-D array is compressed like any other
CompressibleAny(d) == TRUE

\* if data.ndim == 4: print ... else: compress and write
Compressible(d) == Len(d.shape) # 4

\* The records of the file wrap writes: compressed, or plain after the
\* fall through to the last lines.
WrappedHDUs(compressed, mask) ==
    IF compressed
    THEN IF mask THEN <<"PrimaryHDU", "CompImageHDU", "BinTableHDU", "CompImageHDU(mask)">>
         ELSE <<"PrimaryHDU", "CompImageHDU", "BinTableHDU">>
    ELSE <<"PrimaryHDU(image)", "BinTableHDU">>

\* The identity transform matrix, rm of the output path, the side table
\* and the write: compressed when docompress and the squeezed array is not
\* 4-D, else (after the diagnostic, when docompress) the plain 4-D write
\* of the last lines.
WrapWrite ==
    /\ pc = "wrap.assembled"
    /\ LET h1 == IdentityPC(header)
           fs1 == HRemove(fs, loc.outfitsfile)
           d1 == IF args.docompress /\ args.fix_invalid
                 THEN [data EXCEPT !.nan = FALSE] ELSE data
           sq == IF args.docompress THEN headersqueeze(h1, d1)
                 ELSE [header |-> h1, data |-> d1]
       IN  /\ header' = sq.header
           /\ data' = sq.data
           /\ IF Raised(sq.header)
              THEN /\ fs' = fs1
                   /\ out' = out
                   /\ ret' = ret
                   /\ pc' = "wrap.raised"
              ELSE IF args.docompress /\ Compressible(sq.data)
              THEN /\ fs' = HSet(fs1, loc.outfitsfile, WrappedHDUs(TRUE, args.mask))
                   /\ out' = out
                   /\ ret' = loc.outfitsfile
                   /\ pc' = "wrap.done"
              ELSE /\ fs' = HSet(fs1, loc.outfitsfile, WrappedHDUs(FALSE, args.mask))
                   /\ out' = out
                        \cup (IF args.docompress
                              THEN {"only 1D, 2D, or 3D images are currently supported for compression. Aborting compression..."}
                              ELSE {})
                        \cup {"wrapped fits written as"}
                   /\ ret' = loc.outfitsfile
                   /\ pc' = "wrap.done"
    /\ UNCHANGED <<args, handles, loc>>

NextWrap == WrapAbort \/ WrapScan \/ WrapStage \/ WrapAssemble3 \/ WrapAssemble4 \/ WrapWrite

SpecWrap == InitWrap /\ [][NextWrap]_vars

---------------------------------------------------------------------------
(* Claims about wrap *)

WrapEnded == pc \in {"wrap.done", "wrap.raised"}

\* The band paths are passed in ascending order of their names, and so of
\* their center frequencies.
ListedAscending ==
    \A i, j \in 1..Len(args.fitsfiles) :
        i < j => PathRank[args.fitsfiles[i]] < PathRank[args.fitsfiles[j]]

\* The 0-based positions in the list passed of the files that exist.
ExistingAt == {i \in 0..(Len(args.fitsfiles) - 1) : args.fitsfiles[i + 1] \in DOMAIN args.fs}

\* Every slot of the cube holds the data of the file at its position, and
\* zeros when that file is missing.
SlotsHoldTheirFiles ==
    \A pidx \in DOMAIN data.cells :
        /\ Len(data.cells[pidx]) = Len(args.fitsfiles)
        /\ \A i \in 0..(Len(args.fitsfiles) - 1) :
              IF i \in ExistingAt
              THEN data.cells[pidx][i + 1][1] = args.fitsfiles[i + 1]
              ELSE data.cells[pidx][i + 1] = Zero

MixedInput ==
    /\ Len(args.fitsfiles) >= 2
    /\ ListedAscending
    /\ ExistingAt # {}
    /\ ExistingAt # 0..(Len(args.fitsfiles) - 1)

\* C3: a wrap call over n >= 2 band paths in ascending order, of which at
\* least one exists and at least one is missing, completes in both branches
\* with a cube of n slots whose missing slots are all-zero and whose other
\* slots hold their file's data.
C3_MissingBandsKeepSlots ==
    (MixedInput /\ WrapEnded) => (pc = "wrap.done" /\ SlotsHoldTheirFiles)

\* What is left of C3 in the branch of a 4-D template.
C3_HoldsFor4DFiles ==
    (MixedInput /\ WrapEnded /\ args.fileNdim = 4)
        => (pc = "wrap.done" /\ SlotsHoldTheirFiles)

AbortDiagnostic ==
    "only 1D, 2D, or 3D images are currently supported for compression. Aborting compression..."

\* wrap ended after a squeeze that left the cube 4-D, with compression asked.
StillFourD ==
    /\ pc = "wrap.done"
    /\ ret # ""
    /\ args.docompress
    /\ Len(data.shape) = 4

\* C4 as stated: with compression requested and the cube still 4-D after
\* the squeeze, wrap prints the diagnostic and no file is at the output path
\* when it ends.
C4_Original_NoFileWhenRefused ==
    StillFourD => (AbortDiagnostic \in out /\ loc.outfitsfile \notin DOMAIN fs)

\* C4 amended: with compression requested and the cube still 4-D after the
\* squeeze, wrap prints the diagnostic, gives up the compression only, writes
\* the plain 4-D cube with the side table to the output path and returns
\* that path.
C4_FallsBackToPlainWrite ==
    StillFourD =>
        /\ AbortDiagnostic \in out
        /\ loc.outfitsfile \in DOMAIN fs
        /\ fs[loc.outfitsfile] = <<"PrimaryHDU(image)", "BinTableHDU">>
        /\ ret = loc.outfitsfile
        /\ header[kNAXIS] = 4

C4_Witness ==
    /\ StillFourD
    /\ data.shape[1] >= 2
    /\ data.shape[2] >= 2
    /\ args.fileNdim = 4

\* C6: wrap with fewer than 2 paths returns the empty string, raises
\* nothing and leaves the file system as it was, opening no file, whether or
\* not the path exists.
C6_TooFewFilesNoOp ==
    Len(args.fitsfiles) <= 1 =>
        /\ pc \in {"start", "wrap.done"}
        /\ fs = args.fs
        /\ handles = {}
        /\ pc = "wrap.done" => ret = ""

C6_Witness ==
    /\ pc = "wrap.done"
    /\ Len(args.fitsfiles) = 1
    /\ args.fitsfiles[1] \in DOMAIN args.fs
    /\ args.docompress
    /\ ret = ""

\* The center frequencies and the 0-based positions of the existing files,
\* in the order of the list passed.
SeqOfSet(S) == SortBy(CHOOSE q \in [1..Cardinality(S) -> S] : \A x \in S : \E k \in DOMAIN q : q[k] = x,
                      [x \in S |-> x])
ExistingPos == SeqOfSet(ExistingAt)
ExistingFreq == [k \in 1..Len(ExistingPos) |-> args.freq[args.fitsfiles[ExistingPos[k] + 1]]]

GapSpacings ==
    [k \in 1..(Len(ExistingPos) - 1) |->
        Rat(ExistingFreq[k + 1] - ExistingFreq[k], ExistingPos[k + 1] - ExistingPos[k])]

---------------------------------------------------------------------------
(* read *)

\* Largest number of records (HDUs) of a container.
MaxHDU == 3

\* '{0:d}'.format(n)
SignedDec(n) == IF n < 0 THEN <<"-">> \o Dec(-n) ELSE Dec(n)

stokesval ==
    (<<"1">> :> "I") @@ (<<"2">> :> "Q") @@ (<<"3">> :> "U") @@ (<<"4">> :> "V")
        @@ (<<"-", "1">> :> "RR") @@ (<<"-", "2">> :> "LL")
        @@ (<<"-", "3">> :> "RL") @@ (<<"-", "4">> :> "LR")
        @@ (<<"-", "5">> :> "XX") @@ (<<"-", "6">> :> "YY")
        @@ (<<"-", "7">> :> "XY") @@ (<<"-", "8">> :> "YX")

\* What hdu.data is: None, an image array, or the rows of a table.
NoData == [kind |-> "None"]

\* freq_axis = None, pol_axis = None
NoAxis == -1

\* The empty dict.
EmptyMeta == [x \in {} |-> 0]

\* hdu.data.ndim: the rows of a table are a 1-D record array.
ndimOf(d) == IF d.kind = "ndarray" THEN Len(d.shape) ELSE 1

\* start + step * np.arange(n)
Ramp(start, step, n) == [k \in 1..n |-> start + step * (k - 1)]

RECURSIVE ClassifyLoop(_, _, _, _)
\* The loop over the axes that finds the FREQ and the STOKES axis; a
\* keyword that is missing raises KeyError.
ClassifyLoop(h, ndim, idx, c) ==
    IF idx >= ndim \/ c.raised THEN c
    ELSE IF AxisKey(kCTYPE, idx + 1) \notin DOMAIN h
            \/ AxisKey(kNAXIS, idx + 1) \notin DOMAIN h
    THEN [c EXCEPT !.raised = TRUE]
    ELSE LET v == h[AxisKey(kCTYPE, idx + 1)]
             n == h[AxisKey(kNAXIS, idx + 1)]
             c1 == IF StartsWith(v, kFREQ)
                   THEN [c EXCEPT !.freq_axis = ndim - (idx + 1), !.nfreq_fits = n]
                   ELSE c
             c2 == IF StartsWith(v, kSTOKES)
                   THEN [c1 EXCEPT !.pol_axis = ndim - (idx + 1), !.npol = n]
                   ELSE c1
         IN  ClassifyLoop(h, ndim, idx + 1, c2)

\* meta['ref_cfreqs'] and meta['ref_freqdelts'] of a record
FreqMeta(h, ndim, c, meta) ==
    IF c.freq_axis # NoAxis
    THEN LET ax == ndim - c.freq_axis
         IN  IF {AxisKey(kCRVAL, ax), AxisKey(kCDELT, ax), AxisKey(kNAXIS, ax)}
                    \subseteq DOMAIN h
             THEN LET cf == Ramp(h[AxisKey(kCRVAL, ax)], h[AxisKey(kCDELT, ax)],
                                 h[AxisKey(kNAXIS, ax)])
                  IN  [raised |-> FALSE,
                       meta |-> HSet(HSet(meta, "ref_cfreqs", cf), "ref_freqdelts",
                                     [k \in DOMAIN cf |-> h[AxisKey(kCDELT, ax)]])]
             ELSE [raised |-> TRUE, meta |-> meta]
    ELSE IF kRESTFRQ \in DOMAIN h
    THEN [raised |-> FALSE, meta |-> HSet(meta, "ref_cfreqs", <<h[kRESTFRQ]>>)]
    ELSE [raised |-> TRUE, meta |-> meta]

\* meta['pol_idxs'] and meta['pol_names'] of a record: a code that
\* stokesval does not hold raises KeyError once pol_idxs is stored.
PolMeta(h, ndim, c, meta) ==
    IF c.pol_axis = NoAxis THEN [raised |-> FALSE, meta |-> meta]
    ELSE LET ax == ndim - c.pol_axis
         IN  IF ~({AxisKey(kCRVAL, ax), AxisKey(kCDELT, ax), AxisKey(kNAXIS, ax)}
                      \subseteq DOMAIN h)
             THEN [raised |-> TRUE, meta |-> meta]
             ELSE LET idxs == Ramp(h[AxisKey(kCRVAL, ax)], h[AxisKey(kCDELT, ax)],
                                   h[AxisKey(kNAXIS, ax)])
                      m1 == HSet(meta, "pol_idxs", idxs)
                  IN  IF \A k \in DOMAIN idxs : SignedDec(idxs[k]) \in DOMAIN stokesval
                      THEN [raised |-> FALSE,
                            meta |-> HSet(m1, "pol_names",
                                          [k \in DOMAIN idxs |-> stokesval[SignedDec(idxs[k])]])]
                      ELSE [raised |-> TRUE, meta |-> m1]

\* The rest of the try block: the NaNs of the array become 0.0, the array is
\* copied, and the header, the reference map and the axes go to meta; a
\* header without NAXIS2 raises KeyError once nx is stored.
SummaryMeta(hdu, ndim, c, meta) ==
    LET h == hdu.header
        d == [hdu.data EXCEPT !.nan = FALSE]
        m1 == HSet(HSet(HSet(HSet(meta, "header", h), "refmap", "Map"),
                        "naxis", ndim), "hgln_axis", ndim - 1)
    IN  IF AxisKey(kNAXIS, 1) \notin DOMAIN h
        THEN [raised |-> TRUE, meta |-> m1, data |-> d]
        ELSE LET m2 == HSet(HSet(m1, "nx", h[AxisKey(kNAXIS, 1)]), "hglt_axis", ndim - 2)
             IN  IF AxisKey(kNAXIS, 2) \notin DOMAIN h
                 THEN [raised |-> TRUE, meta |-> m2, data |-> d]
                 ELSE [raised |-> FALSE, data |-> d,
                       meta |-> HSet(HSet(HSet(HSet(HSet(m2,
                                    "ny", h[AxisKey(kNAXIS, 2)]),
                                    "freq_axis", c.freq_axis),
                                    "nfreq", c.nfreq_fits),
                                    "pol_axis", c.pol_axis),
                                    "npol", c.npol)]

\* The try block on one record, from the meta and data the loop holds: what
\* they are when the block raises or reaches its break.
TryRecord(hdu, meta, d) ==
    IF hdu.data.kind = "None" THEN [raised |-> TRUE, meta |-> meta, data |-> d]
    ELSE LET ndim == ndimOf(hdu.data)
             c == ClassifyLoop(hdu.header, ndim, 0,
                               [raised |-> FALSE, freq_axis |-> NoAxis, pol_axis |-> NoAxis,
                                npol |-> 1, nfreq_fits |-> 1])
         IN  IF c.raised THEN [raised |-> TRUE, meta |-> meta, data |-> d]
             ELSE LET f == FreqMeta(hdu.header, ndim, c, meta)
                  IN  IF f.raised THEN [raised |-> TRUE, meta |-> f.meta, data |-> d]
                      ELSE LET p == PolMeta(hdu.header, ndim, c, f.meta)
                           IN  IF p.raised
                               THEN [raised |-> TRUE, meta |-> p.meta, data |-> d]
                               ELSE SummaryMeta(hdu, ndim, c, p.meta)

\* hasattr(hdulist[-1].data, 'cfreqs')
HasCfreqs(hdu) == hdu.data.kind = "FITS_rec" /\ "cfreqs" \in DOMAIN hdu.data.cols

\* The frequencies of the table of the last record, put over those of meta.
AuxOverride(hdulist, meta) ==
    LET last == hdulist[Len(hdulist)]
    IN  IF HasCfreqs(last)
        THEN HSet(HSet(meta, "ref_cfreqs", last.data.cols["cfreqs"]),
                  "ref_freqdelts", last.data.cols["cdelts"])
        ELSE meta

\* hdulist[hdus] for an int, every record for None (given as NoAxis)
Selected(hdulist, hdus) == IF hdus = NoAxis THEN hdulist ELSE <<hdulist[hdus + 1]>>

\* The header of an image record: the per-axis keys of InputHeader, the
\* polarization codes polCrval, polCrval - 1, ... on the STOKES axis, and
\* RESTFRQ where the file has one.
ImageHeader(dshape, stokesAxis, restfrq, polCrval) ==
    LET base == InputHeader(dshape, stokesAxis, FALSE)
        pol == IF stokesAxis = 0 THEN base
               ELSE (AxisKey(kCRVAL, stokesAxis) :> polCrval)
                        @@ (AxisKey(kCDELT, stokesAxis) :> -1) @@ base
    IN  IF restfrq THEN (kRESTFRQ :> 1200) @@ pol ELSE pol

ImageHDU(dshape, stokesAxis, restfrq, polCrval, nan) ==
    [data |-> [kind |-> "ndarray", shape |-> dshape, nan |-> nan],
     header |-> ImageHeader(dshape, stokesAxis, restfrq, polCrval)]

\* A primary record without an array.
EmptyHDU == [data |-> NoData, header |-> (kNAXIS :> 0) @@ <<>>]

\* A table record with the columns cols, of MaxDim rows.
TableHDU(cols) ==
    [data |-> [kind |-> "FITS_rec", cols |-> cols],
     header |-> (kNAXIS :> 2) @@ (AxisKey(kNAXIS, 1) :> 16)
                    @@ (AxisKey(kNAXIS, 2) :> MaxDim)]

\* The records a container is made of: an empty primary; a 2-D image with
\* and without RESTFRQ; a 4-D cube with valid (XX, YY) and with invalid
\* polarization codes; a 1-D array; the table wrap adds, and another table.
Records ==
    { EmptyHDU,
      ImageHDU(<<MaxDim, MaxDim>>, 0, TRUE, 0, FALSE),
      ImageHDU(<<MaxDim, MaxDim>>, 0, FALSE, 0, TRUE),
      ImageHDU(<<2, MaxDim, MaxDim, MaxDim>>, 4, FALSE, -5, TRUE),
      ImageHDU(<<2, MaxDim, MaxDim, MaxDim>>, 4, FALSE, 0, FALSE),
      ImageHDU(<<MaxDim>>, 0, TRUE, 0, FALSE),
      TableHDU(("cfreqs" :> [k \in 1..MaxDim |-> 1000 * k * k])
                   @@ ("cdelts" :> [k \in 1..MaxDim |-> 325])),
      TableHDU(("time" :> [k \in 1..MaxDim |-> k])) }

InPath == "in.fits"

\* The calls of read: a container of 1..MaxHDU records, every record or
\* the one at an index, verbose or not.
InitRead ==
    \E n \in 1..MaxHDU, verbose \in BOOLEAN :
      \E hdulist \in [1..n -> Records], hdus \in {NoAxis} \cup 0..(n - 1) :
        /\ pc = "start"
        /\ args = [filepath |-> InPath, hdus |-> hdus, verbose |-> verbose,
                   hdulist |-> hdulist]
        /\ header = <<>>
        /\ data = NoData
        /\ ret = None
        /\ fs = [x \in {InPath} |-> <<"HDUList">>]
        /\ out = {}
        /\ handles = {}
        /\ loc = [hdulist |-> <<>>, i |-> 0, meta |-> EmptyMeta]

\* with fits.open(filepath) as hdulist, the selection of hdus, h.verify for
\* every record and meta = {}
ReadOpen ==
    /\ pc = "start"
    /\ handles' = handles \cup {[var |-> "hdulist", path |-> args.filepath]}
    /\ loc' = [hdulist |-> Selected(args.hdulist, args.hdus), i |-> 0,
               meta |-> EmptyMeta]
    /\ pc' = "read.loop"
    /\ UNCHANGED <<args, header, data, ret, fs, out>>

\* One round of the loop whose try block reaches its break.
ReadRecord ==
    /\ pc = "read.loop"
    /\ loc.i < Len(loc.hdulist)
    /\ LET r == TryRecord(loc.hdulist[loc.i + 1], loc.meta, data)
       IN  /\ ~r.raised
           /\ loc' = [loc EXCEPT !.meta = r.meta]
           /\ data' = r.data
    /\ pc' = "read.aux"
    /\ UNCHANGED <<args, header, ret, fs, out, handles>>

\* One round of the loop whose try block raises: the except clause prints
\* when verbose, empties meta and data, and the loop goes on or ends.
ReadSkip ==
    /\ pc = "read.loop"
    /\ loc.i < Len(loc.hdulist)
    /\ TryRecord(loc.hdulist[loc.i + 1], loc.meta, data).raised
    /\ out' = IF args.verbose
              THEN out \cup {<<"print(e)", loc.i>>, <<"skipped HDU", loc.i>>}
              ELSE out
    /\ loc' = [loc EXCEPT !.meta = EmptyMeta, !.i = loc.i + 1]
    /\ data' = NoData
    /\ pc' = IF loc.i + 1 < Len(loc.hdulist) THEN "read.loop" ELSE "read.aux"
    /\ UNCHANGED <<args, header, ret, fs, handles>>

\* The check of the last record for the cfreqs table, hdulist.close(), the
\* return and the end of the with block.
ReadReturn ==
    /\ pc = "read.aux"
    /\ LET has == HasCfreqs(loc.hdulist[Len(loc.hdulist)])
           m == AuxOverride(loc.hdulist, loc.meta)
       IN  /\ out' = IF ~args.verbose THEN out
                     ELSE IF has
                     THEN out \cup {<<"FITS file contains an additional frequency axis. Update the frequency information in cfreqs and cdelts. Ignore the original version with equal spacings.">>}
                     ELSE out \cup {<<"FITS file does not have an additional frequency axis. Use the original version with equal spacings.">>}
           /\ loc' = [loc EXCEPT !.meta = m]
           /\ ret' = [meta |-> m, data |-> data]
    /\ handles' = handles \ {[var |-> "hdulist", path |-> args.filepath]}
    /\ pc' = "read.done"
    /\ UNCHANGED <<args, header, data, fs>>

NextRead == ReadOpen \/ ReadRecord \/ ReadSkip \/ ReadReturn

SpecRead == InitRead /\ [][NextRead]_vars

---------------------------------------------------------------------------
(* Claims about read *)

\* The try block of read fails on the record.
Fails(hdu) == TryRecord(hdu, EmptyMeta, NoData).raised

\* The position in the selected records of the first one read can process,
\* 0 when there is none.
FirstGood ==
    LET recs == Selected(args.hdulist, args.hdus)
        good == {k \in 1..Len(recs) : ~Fails(recs[k])}
    IN  IF good = {} THEN 0 ELSE CHOOSE k \in good : \A x \in good : k <= x

AuxKeys == {"ref_cfreqs", "ref_freqdelts"}

\* What is returned is what the first good record alone gives (but for the
\* frequencies a table of the last record overrides): the records skipped
\* before it have left nothing.
SkippedLeaveNothing ==
    FirstGood # 0 =>
        LET recs == Selected(args.hdulist, args.hdus)
            g == TryRecord(recs[FirstGood], EmptyMeta, NoData)
        IN  /\ ret.data = g.data
            /\ DOMAIN ret.meta = DOMAIN g.meta \cup (IF HasCfreqs(recs[Len(recs)]) THEN AuxKeys ELSE {})
            /\ \A k \in DOMAIN g.meta :
                   (k \notin AuxKeys \/ ~HasCfreqs(recs[Len(recs)])) => ret.meta[k] = g.meta[k]

\* C9: in read a record that fails is skipped and leaves nothing in the
\* result, the next record being tried; when every record fails read
\* returns a summary without keys and no data, also when the last record
\* carries the cfreqs/cdelts table.
C9_AllFailEmptySummary ==
    pc = "read.done" =>
        /\ SkippedLeaveNothing
        /\ FirstGood = 0 => (DOMAIN ret.meta = {} /\ ret.data = NoData)

\* What is left of C9: the part on the records skipped, and the empty
\* result when every record fails and the last one has no cfreqs table.
C9_HoldsWithoutTable ==
    pc = "read.done" =>
        /\ SkippedLeaveNothing
        /\ (FirstGood = 0 /\ ~HasCfreqs(loc.hdulist[Len(loc.hdulist)]))
               => (DOMAIN ret.meta = {} /\ ret.data = NoData)

\* Every record failed, the last one being the table, and read has returned.
C9_AllFailedWithTable ==
    /\ pc = "read.done"
    /\ FirstGood = 0
    /\ Len(loc.hdulist) >= 2
    /\ HasCfreqs(loc.hdulist[Len(loc.hdulist)])
    /\ DOMAIN ret.meta = AuxKeys

---------------------------------------------------------------------------
(* Claims about the container handles *)

\* The call of read or wrap has ended: by a return or by an error.
CallEnded == pc \in {"read.done", "wrap.done", "wrap.raised"}

\* C11: every container handle read or wrap has opened is closed by the
\* time the call ends, on every exit path (return, early abort, error): the
\* handle wrap opens in update mode on the output file and the handle of
\* every band file wrap opens in its loop included.
C11_HandlesClosedAtEnd == CallEnded => handles = {}

\* What is left of C11: read has closed its handle when it returns, and a
\* wrap that aborts for too few files has opened none.
C11_HoldsForReadAndAbort ==
    /\ pc = "read.done" => handles = {}
    /\ (pc = "wrap.done" /\ ret = "") => handles = {}

\* wrap has returned its output path with the update-mode handle and the
\* handle of every existing band file still open.
C11_WrapLeavesHandlesOpen ==
    /\ pc = "wrap.done"
    /\ ret = loc.outfitsfile
    /\ [var |-> "hdu0", path |-> loc.outfitsfile] \in handles
    /\ \A k \in 1..Len(loc.fits_exist) :
           [var |-> "hdu", path |-> loc.fits_exist[k]] \in handles

=============================================================================
